---- MODULE Spec2Model ----
(***************************************************************************)
(* Fractional Brownian motion and fractional Gaussian noise samplers       *)
(* (src/src/gaussian/fractional.rs).                                       *)
(*                                                                         *)
(* f64 values are modelled in fixed point: the integer x stands for the    *)
(* real x / Q, and one distinguished integer stands for NaN.  Results of   *)
(* inexact operations are rounded towards minus infinity to the grid.      *)
(***************************************************************************)
EXTENDS Integers, Sequences, FiniteSets, TLC

VARIABLES debug, pad, sampler, gen, status, last, rerun

vars == <<debug, pad, sampler, gen, status, last, rerun>>

(***************************************************************************)
(* Bounds of the model.                                                    *)
(***************************************************************************)
MaxPoints == 4
MaxPad == 2
MaxTau == 3

(***************************************************************************)
(* f64 in fixed point.                                                     *)
(***************************************************************************)
Q == 4
NaN == -9999

One == Q
Two == 2 * Q
Half == Q \div 2

IsNaN(x) == x = NaN

FGt(a, b) == ~IsNaN(a) /\ ~IsNaN(b) /\ a > b
FLt(a, b) == ~IsNaN(a) /\ ~IsNaN(b) /\ a < b
FLe(a, b) == ~IsNaN(a) /\ ~IsNaN(b) /\ a <= b

FAdd(a, b) == IF IsNaN(a) \/ IsNaN(b) THEN NaN ELSE a + b
FSub(a, b) == IF IsNaN(a) \/ IsNaN(b) THEN NaN ELSE a - b
FMul(a, b) == IF IsNaN(a) \/ IsNaN(b) THEN NaN ELSE (a * b) \div Q
FDiv(a, b) == IF IsNaN(a) \/ IsNaN(b) THEN NaN ELSE (a * Q) \div b
FAbs(a) == IF IsNaN(a) THEN NaN ELSE IF a < 0 THEN 0 - a ELSE a
FromUsize(n) == n * Q

Min(a, b) == IF a < b THEN a ELSE b
Max(a, b) == IF a > b THEN a ELSE b

RECURSIVE IPow(_, _)
IPow(b, k) == IF k = 0 THEN 1 ELSE b * IPow(b, k - 1)

RECURSIVE FPowi(_, _)
FPowi(x, k) == IF k = 0 THEN One ELSE FMul(x, FPowi(x, k - 1))

\* x^(e/Q) for x >= 0 and a positive exponent e that is not a whole number:
\* the largest grid value r with (r/Q)^Q <= (x/Q)^e, searched upwards.
RECURSIVE RootFrom(_, _, _)
RootFrom(r, lhs, rhs) ==
    IF IPow(r + 1, Q) * lhs > rhs THEN r ELSE RootFrom(r + 1, lhs, rhs)

FRoot(x, e) ==
    IF e < Q THEN RootFrom(0, 1, IPow(x, e) * IPow(Q, Q - e))
             ELSE RootFrom(0, IPow(Q, e - Q), IPow(x, e))

\* f64::powf for exponents >= 0 (IEEE: x^0 = 1 and 1^y = 1 even for NaN).
Powf(x, e) ==
    IF e = 0 THEN One
    ELSE IF x = One THEN One
    ELSE IF IsNaN(x) \/ IsNaN(e) THEN NaN
    ELSE IF e % Q = 0 THEN FPowi(x, e \div Q)
    ELSE IF x < 0 THEN NaN
    ELSE FRoot(x, e)

(***************************************************************************)
(* The inputs the callers are drawn from.                                  *)
(***************************************************************************)
ValidHursts == {1, 2, 3}
Hursts == ValidHursts \union {0, Q, NaN}
ValidSteps == {Half, One, Two}
Steps == ValidSteps \union {0, 0 - One, NaN}
Points == 0..MaxPoints
Taus == 0..MaxTau

(***************************************************************************)
(* The Generator and the standard normal distribution drawn from it.       *)
(***************************************************************************)
Period == 5
Seeds == 0..(Period - 1)
NextGen(g) == (g + 1) % Period
Variate(g) == (((g * 3) % 5) - 2) * Half
GaussianSample(g) == [value |-> Variate(g), gen |-> NextGen(g)]

RECURSIVE Draws(_, _)
Draws(g, m) ==
    IF m = 0 THEN [seq |-> <<>>, gen |-> g]
    ELSE LET d == GaussianSample(g)
             rest == Draws(d.gen, m - 1)
         IN [seq |-> <<d.value>> \o rest.seq, gen |-> rest.gen]

(***************************************************************************)
(* hurst! and step!: debug-only assertions.                                *)
(***************************************************************************)
\* Variant: the bounds of the interval are let through.
HurstOkInclusive(value) == FLe(0, value) /\ FLe(value, One)

HurstOk(value) == FGt(value, 0) /\ FLt(value, One)
StepOk(value) == FGt(value, 0)

HurstMacro(value, dbg) == ~dbg \/ HurstOk(value)
StepMacro(value, dbg) == ~dbg \/ StepOk(value)

NoSampler == [kind |-> "None", hurst |-> 0, step |-> 0]

MotionNew(hurst, dbg) ==
    IF HurstMacro(hurst, dbg)
    THEN [outcome |-> "ok", obj |-> [kind |-> "Motion", hurst |-> hurst, step |-> 0]]
    ELSE [outcome |-> "assert", obj |-> NoSampler]

NoiseNew(hurst, step, dbg) ==
    IF HurstMacro(hurst, dbg) /\ StepMacro(step, dbg)
    THEN [outcome |-> "ok", obj |-> [kind |-> "Noise", hurst |-> hurst, step |-> step]]
    ELSE [outcome |-> "assert", obj |-> NoSampler]

(***************************************************************************)
(* Stationary covariance of the noise.                                     *)
(***************************************************************************)
\* Variant: the absolute value of tau - 1 is not taken.
StationaryCovNoAbs(noise, tau) ==
    LET t == FromUsize(tau)
        power == FMul(Two, noise.hurst)
    IN FMul(FMul(Half, Powf(noise.step, power)),
            FAdd(FSub(Powf(FAdd(t, One), power), FMul(Two, Powf(t, power))),
                 Powf(FSub(t, One), power)))

StationaryCov(noise, tau) ==
    LET t == FromUsize(tau)
        power == FMul(Two, noise.hurst)
    IN FMul(FMul(Half, Powf(noise.step, power)),
            FAdd(FSub(Powf(FAdd(t, One), power), FMul(Two, Powf(t, power))),
                 Powf(FAbs(FSub(t, One)), power)))

(***************************************************************************)
(* The circulant embedding engine.  It draws one variate per slot of the   *)
(* embedding and returns the whole embedded sequence of complex values;    *)
(* the spectral synthesis is abstracted to the product of the circulant    *)
(* covariance matrix with the variates.                                    *)
(***************************************************************************)
EmbeddingSize(n) == Max(1, 2 * (n - 1)) + pad

RECURSIVE CirculantRow(_, _, _)
CirculantRow(noise, m, k) ==
    IF k = m THEN <<>>
    ELSE <<StationaryCov(noise, Min(k, m - k))>> \o CirculantRow(noise, m, k + 1)

RECURSIVE MixSum(_, _, _, _)
MixSum(row, z, i, k) ==
    IF k = 0 THEN 0
    ELSE FAdd(MixSum(row, z, i, k - 1),
              FMul(row[((k - i + Len(z)) % Len(z)) + 1], z[k]))

RECURSIVE Synthesize(_, _, _)
Synthesize(row, z, i) ==
    IF i > Len(z) THEN <<>>
    ELSE <<[re |-> MixSum(row, z, i, Len(z)), im |-> 0]>> \o Synthesize(row, z, i + 1)

CirculantEmbedding(noise, n, g) ==
    LET m == EmbeddingSize(n)
        d == Draws(g, m)
    IN [seq |-> Synthesize(CirculantRow(noise, m, 0), d.seq, 1), gen |-> d.gen]

(***************************************************************************)
(* Noise::sample.  engine is the size the engine was invoked with, 0 when  *)
(* it was not invoked.                                                     *)
(***************************************************************************)
\* Variant: a variate is drawn and thrown away.
NoiseSampleEmptyDrawing(noise, g) ==
    [outcome |-> "ok", out |-> <<>>, gen |-> GaussianSample(g).gen, engine |-> 0]

NoiseSampleEmpty(noise, g) ==
    [outcome |-> "ok", out |-> <<>>, gen |-> g, engine |-> 0]

\* Variant: the single draw is scaled by the standard deviation of an increment.
NoiseSampleSingleScaled(noise, g) ==
    LET d == GaussianSample(g)
    IN [outcome |-> "ok", out |-> <<FMul(Powf(noise.step, noise.hurst), d.value)>>,
        gen |-> d.gen, engine |-> 0]

NoiseSampleSingle(noise, g) ==
    LET d == GaussianSample(g)
    IN [outcome |-> "ok", out |-> <<d.value>>, gen |-> d.gen, engine |-> 0]

\* Variant: the scale is kept from the call before.
NoiseSampleEmbeddedCached(noise, points, g) ==
    LET n == Max(1, Len(last.out))
        scale == Powf(FDiv(One, FromUsize(n)), noise.hurst)
        data == CirculantEmbedding(noise, points - 1, g)
        taken == Min(points, Len(data.seq))
    IN [outcome |-> "ok",
        out |-> [i \in 1..taken |-> FMul(scale, data.seq[i].re)],
        gen |-> data.gen, engine |-> points - 1]

NoiseSampleEmbedded(noise, points, g) ==
    LET n == points - 1
        scale == Powf(FDiv(One, FromUsize(n)), noise.hurst)
        data == CirculantEmbedding(noise, n, g)
        taken == Min(points, Len(data.seq))
    IN [outcome |-> "ok",
        out |-> [i \in 1..taken |-> FMul(scale, data.seq[i].re)],
        gen |-> data.gen, engine |-> n]

NoiseSample(noise, points, g) ==
    IF points = 0 THEN NoiseSampleEmpty(noise, g)
    ELSE IF points = 1 THEN NoiseSampleSingle(noise, g)
    ELSE NoiseSampleEmbedded(noise, points, g)

(***************************************************************************)
(* Motion::sample.  inc is the increment sequence Noise::sample returned.  *)
(***************************************************************************)
\* Variant: each entry receives the entry two places before it.
RECURSIVE AccumulateSkipping(_, _, _)
AccumulateSkipping(data, i, points) ==
    IF i >= points THEN [outcome |-> "ok", data |-> data]
    ELSE IF i + 1 > Len(data) THEN [outcome |-> "bounds", data |-> data]
    ELSE AccumulateSkipping([data EXCEPT ![i + 1] = FAdd(data[i + 1], data[i - 1])],
                            i + 1, points)

RECURSIVE Accumulate(_, _, _)
Accumulate(data, i, points) ==
    IF i >= points THEN [outcome |-> "ok", data |-> data]
    ELSE IF i + 1 > Len(data) THEN [outcome |-> "bounds", data |-> data]
    ELSE Accumulate([data EXCEPT ![i + 1] = FAdd(data[i + 1], data[i])], i + 1, points)

MotionSamplePath(motion, points, step, g, dbg) ==
    LET made == NoiseNew(motion.hurst, step, dbg)
        noise == NoiseSample(made.obj, points - 1, g)
        acc == Accumulate(<<0>> \o noise.out, 2, points)
    IN IF made.outcome # "ok"
       THEN [outcome |-> "assert", out |-> <<>>, gen |-> g, inc |-> <<>>]
       ELSE [outcome |-> acc.outcome,
             out |-> IF acc.outcome = "ok" THEN acc.data ELSE <<>>,
             gen |-> noise.gen, inc |-> noise.out]

\* Variant: a path of one point is empty.
MotionSampleNoOrigin(motion, points, step, g, dbg) ==
    IF points <= 1 THEN [outcome |-> "ok", out |-> <<>>, gen |-> g, inc |-> <<>>]
    ELSE MotionSamplePath(motion, points, step, g, dbg)

\* Variant: the noise is built, and the step checked, before the match.
MotionSampleEager(motion, points, step, g, dbg) ==
    IF NoiseNew(motion.hurst, step, dbg).outcome # "ok"
    THEN [outcome |-> "assert", out |-> <<>>, gen |-> g, inc |-> <<>>]
    ELSE IF points = 0 THEN [outcome |-> "ok", out |-> <<>>, gen |-> g, inc |-> <<>>]
    ELSE IF points = 1 THEN [outcome |-> "ok", out |-> <<0>>, gen |-> g, inc |-> <<>>]
    ELSE MotionSamplePath(motion, points, step, g, dbg)

MotionSample(motion, points, step, g, dbg) ==
    IF points = 0 THEN [outcome |-> "ok", out |-> <<>>, gen |-> g, inc |-> <<>>]
    ELSE IF points = 1 THEN [outcome |-> "ok", out |-> <<0>>, gen |-> g, inc |-> <<>>]
    ELSE MotionSamplePath(motion, points, step, g, dbg)

(***************************************************************************)
(* State: the build, the engine's sizing rule, the sampler the caller      *)
(* holds, the caller's generator, and a record of the last call.           *)
(***************************************************************************)
NoCall == [op |-> "none", self |-> NoSampler, hurst |-> 0, step |-> 0,
           points |-> 0, tau |-> 0, genBefore |-> 0, outcome |-> "ok",
           out |-> <<>>, inc |-> <<>>, engine |-> 0]

NoRerun == [done |-> FALSE, outcome |-> "ok", out |-> <<>>]

Init ==
    /\ debug \in BOOLEAN
    /\ pad \in 0..MaxPad
    /\ sampler = NoSampler
    /\ gen \in Seeds
    /\ status = "running"
    /\ last = NoCall
    /\ rerun = NoRerun

Finish(outcome) == IF outcome = "ok" THEN "running" ELSE "panicked"

CallMotionNew(hurst) ==
    /\ status = "running"
    /\ sampler.kind = "None"
    /\ \E r \in {MotionNew(hurst, debug)} :
          /\ sampler' = r.obj
          /\ status' = Finish(r.outcome)
          /\ last' = [NoCall EXCEPT !.op = "Motion.new", !.hurst = hurst,
                                    !.genBefore = gen, !.outcome = r.outcome]
    /\ rerun' = NoRerun
    /\ UNCHANGED <<debug, pad, gen>>

CallNoiseNew(hurst, step) ==
    /\ status = "running"
    /\ sampler.kind = "None"
    /\ \E r \in {NoiseNew(hurst, step, debug)} :
          /\ sampler' = r.obj
          /\ status' = Finish(r.outcome)
          /\ last' = [NoCall EXCEPT !.op = "Noise.new", !.hurst = hurst, !.step = step,
                                    !.genBefore = gen, !.outcome = r.outcome]
    /\ rerun' = NoRerun
    /\ UNCHANGED <<debug, pad, gen>>

CallMotionSample(points, step) ==
    /\ status = "running"
    /\ sampler.kind = "Motion"
    /\ \E r \in {MotionSample(sampler, points, step, gen, debug)} :
          /\ gen' = r.gen
          /\ status' = Finish(r.outcome)
          /\ last' = [NoCall EXCEPT !.op = "Motion.sample", !.self = sampler,
                                    !.step = step, !.points = points,
                                    !.genBefore = gen, !.outcome = r.outcome,
                                    !.out = r.out, !.inc = r.inc]
    /\ rerun' = NoRerun
    /\ UNCHANGED <<debug, pad, sampler>>

CallNoiseSample(points) ==
    /\ status = "running"
    /\ sampler.kind = "Noise"
    /\ \E r \in {NoiseSample(sampler, points, gen)} :
          /\ gen' = r.gen
          /\ status' = Finish(r.outcome)
          /\ last' = [NoCall EXCEPT !.op = "Noise.sample", !.self = sampler,
                                    !.points = points, !.genBefore = gen,
                                    !.outcome = r.outcome, !.out = r.out,
                                    !.engine = r.engine]
    /\ rerun' = NoRerun
    /\ UNCHANGED <<debug, pad, sampler>>

CallNoiseCov(tau) ==
    /\ status = "running"
    /\ sampler.kind = "Noise"
    /\ last' = [NoCall EXCEPT !.op = "Noise.cov", !.self = sampler, !.tau = tau,
                              !.genBefore = gen,
                              !.out = <<StationaryCov(sampler, tau)>>]
    /\ rerun' = NoRerun
    /\ UNCHANGED <<debug, pad, sampler, gen, status>>

\* The caller repeats the last sample call on a sampler with the same
\* parameters, with a generator seeded as the first one was.
Resample ==
    /\ status = "running"
    /\ last.op \in {"Motion.sample", "Noise.sample"}
    /\ ~rerun.done
    /\ \E r \in {IF last.op = "Motion.sample"
                THEN MotionSample(last.self, last.points, last.step, last.genBefore, debug)
                ELSE NoiseSample(last.self, last.points, last.genBefore)} :
          rerun' = [done |-> TRUE, outcome |-> r.outcome, out |-> r.out]
    /\ UNCHANGED <<debug, pad, sampler, gen, status, last>>

Next ==
    \/ \E hurst \in Hursts : CallMotionNew(hurst)
    \/ \E hurst \in Hursts, step \in Steps : CallNoiseNew(hurst, step)
    \/ \E points \in Points, step \in Steps : CallMotionSample(points, step)
    \/ \E points \in Points : CallNoiseSample(points)
    \/ \E tau \in Taus : CallNoiseCov(tau)
    \/ Resample

Spec == Init /\ [][Next]_vars

(***************************************************************************)
(* Properties.                                                             *)
(***************************************************************************)
InInterval(h) == h # NaN /\ h > 0 /\ h < One
Positive(x) == x # NaN /\ x > 0
NotPositive(x) == x # NaN /\ x <= 0

\* C1: Noise.sample(points, generator) on a sampler with valid hurst and step
\* returns a sequence of exactly points entries.
C1_NoiseLength ==
    (last.op = "Noise.sample" /\ InInterval(last.self.hurst) /\ Positive(last.self.step))
        => Len(last.out) = last.points

\* C2: Motion.sample(points, step, generator) with valid hurst and step > 0
\* returns normally, with exactly points entries.
C2_MotionReturns ==
    (last.op = "Motion.sample" /\ InInterval(last.self.hurst) /\ Positive(last.step))
        => (last.outcome = "ok" /\ Len(last.out) = last.points)

\* C3: for points >= 2 the path Motion.sample returns is the prefix-sum
\* sequence of (0, e_1, ..., e_k), e the increments Noise.sample returned.
C3_CumulativeSum ==
    (last.op = "Motion.sample" /\ last.points >= 2 /\ last.outcome = "ok")
        => /\ Len(last.out) = Len(last.inc) + 1
           /\ last.out[1] = 0
           /\ \A i \in 1..Len(last.inc) :
                 last.out[i + 1] = FAdd(last.out[i], last.inc[i])

C3_Witness ==
    /\ last.op = "Motion.sample" /\ last.outcome = "ok"
    /\ last.points >= 4
    /\ last.inc[1] # 0 /\ last.inc[2] # 0 /\ last.inc[3] # 0
    /\ ~IsNaN(last.out[4])

\* C4: with a valid hurst, Noise.sample(0) and Motion.sample(0) return the
\* empty sequence and Motion.sample(1) returns [0.0], whatever the step and
\* the generator.
C4_FixedResults ==
    /\ (last.op = "Noise.sample" /\ InInterval(last.self.hurst) /\ last.points = 0)
           => (last.outcome = "ok" /\ last.out = <<>>)
    /\ (last.op = "Motion.sample" /\ InInterval(last.self.hurst) /\ last.points = 0)
           => (last.outcome = "ok" /\ last.out = <<>>)
    /\ (last.op = "Motion.sample" /\ InInterval(last.self.hurst) /\ last.points = 1)
           => (last.outcome = "ok" /\ last.out = <<0>>)

C4_Witness ==
    /\ last.op = "Motion.sample" /\ InInterval(last.self.hurst)
    /\ last.points = 1 /\ last.step = Two /\ last.genBefore = 3
    /\ last.out = <<0>>

C6_Construction ==
    /\ (debug /\ last.op = "Motion.new") =>
          /\ last.outcome = "assert" <=> ~InInterval(last.hurst)
          /\ last.outcome = "assert" => (sampler = NoSampler /\ status = "panicked")
          /\ last.outcome = "ok" =>
                (sampler.kind = "Motion" /\ sampler.hurst = last.hurst
                    /\ status = "running")
    /\ (debug /\ last.op = "Noise.new") =>
          /\ last.outcome = "assert" <=> ~(InInterval(last.hurst) /\ Positive(last.step))
          /\ last.outcome = "assert" => (sampler = NoSampler /\ status = "panicked")
          /\ last.outcome = "ok" =>
                (sampler.kind = "Noise" /\ sampler.hurst = last.hurst
                    /\ sampler.step = last.step /\ status = "running")

C6_Witness ==
    /\ debug /\ last.op = "Noise.new" /\ last.hurst = One /\ last.step = Two
    /\ last.outcome = "assert" /\ sampler = NoSampler

\* C7: for hurst = 0.5 and step > 0 the stationary covariance is step at
\* lag 0 and 0 at every lag >= 1.
C7_WhiteNoise ==
    (last.op = "Noise.cov" /\ last.self.hurst = Half /\ Positive(last.self.step))
        => last.out = <<IF last.tau = 0 THEN last.self.step ELSE 0>>

C7_Witness ==
    /\ last.op = "Noise.cov" /\ last.self.hurst = Half /\ last.self.step = Two
    /\ last.tau = 0 /\ last.out = <<Two>>

\* C8: Noise.sample(1) takes exactly one standard normal draw from the
\* generator, does not invoke the engine, and returns that draw unscaled.
C8_SingleDraw ==
    (last.op = "Noise.sample" /\ last.points = 1)
        => /\ last.outcome = "ok"
           /\ last.out = <<Variate(last.genBefore)>>
           /\ gen = NextGen(last.genBefore)
           /\ last.engine = 0

C8_Witness ==
    /\ last.op = "Noise.sample" /\ last.points = 1
    /\ last.self.hurst = 3 /\ last.self.step = Two
    /\ last.genBefore = 3 /\ last.out = <<One>>

\* C9: Noise.sample(0), Motion.sample(0) and Motion.sample(1) leave the
\* generator in the state it had before the call.
C9_NoDraws ==
    (\/ (last.op = "Noise.sample" /\ last.points = 0)
     \/ (last.op = "Motion.sample" /\ last.points \in {0, 1}))
        => (last.outcome = "ok" /\ gen = last.genBefore)

C9_Witness ==
    /\ last.op = "Noise.sample" /\ last.points = 0
    /\ last.genBefore = 2 /\ gen = 2 /\ status = "running"

\* C10: in a debug build Motion.sample with step <= 0 fails the step
\* assertion exactly when points >= 2, and returns [] and [0.0] for
\* points = 0 and points = 1.
C10_StepCheckedLate ==
    (debug /\ last.op = "Motion.sample" /\ NotPositive(last.step))
        => /\ last.outcome = "assert" <=> last.points >= 2
           /\ last.points = 0 => (last.outcome = "ok" /\ last.out = <<>>)
           /\ last.points = 1 => (last.outcome = "ok" /\ last.out = <<0>>)

C10_Witness ==
    /\ debug /\ last.op = "Motion.sample" /\ last.step = 0
    /\ last.points = 0 /\ last.outcome = "ok" /\ status = "running"

====
